---------------------------- MODULE Spec2Model ----------------------------
(***************************************************************************)
(* The search widget: the useSearch hook (debounce, request ids, abort      *)
(* controllers), the SearchAPI service (cache, fetch, filter, sort, slice), *)
(* the URL effect of SearchInput and the mount effect of App.               *)
(*                                                                         *)
(* Strings are sequences of one-character strings.  Time is in             *)
(* milliseconds since page load.  Every handler (an event handler, a timer  *)
(* callback, the continuation of a settled promise together with the       *)
(* microtasks it triggers) is one atomic action, as on the JavaScript      *)
(* event loop.                                                             *)
(***************************************************************************)
EXTENDS Integers, Sequences, FiniteSets, TLC

(* ------------------------------ bounds --------------------------------- *)

\* number of calls of the hook's API (setQuery, setQueryImmediate, clearResults)
MaxCalls == 2

\* the last instant of the run, in ms since page load
MaxTime == 1400

\* the most entries a document given to SearchAPI.search alone holds
MaxDocLen == 11

\* Date.now() at page load, in ms since 1970 (any real value is larger)
TimeOrigin == 1000000000

(* --------------------------- program constants ------------------------- *)

debounceMs == 800

minQueryLength == 2

UrlSyncDelayMs == 1000

cacheTimeout == 5 * 60 * 1000

DefaultOffset == 0

Null == "null"

RequestCancelled == "Request cancelled"

\* what a fetch of the data file that is not aborted fails with
FetchErrors == {"HTTP error! status: 500"}

(* ------------------------------ strings -------------------------------- *)

\* the values of the input: empty, too short, blank, long enough, and long
\* enough only with its trailing space
Queries == {<<>>, <<"a">>, <<" ">>, <<"a", "a">>, <<"a", " ">>}

\* the values of the q parameter the page is opened with
UrlQueries == Queries \cup {<<" ", "a", "a">>}

IsSpace(c) == c = " "

RECURSIVE TrimStart(_)
TrimStart(s) ==
  IF s # <<>> /\ IsSpace(Head(s)) THEN TrimStart(Tail(s)) ELSE s

RECURSIVE TrimEnd(_)
TrimEnd(s) ==
  IF s # <<>> /\ IsSpace(s[Len(s)]) THEN TrimEnd(SubSeq(s, 1, Len(s) - 1)) ELSE s

\* String.prototype.trim
Trim(s) == TrimEnd(TrimStart(s))

LowerChar(c) ==
  CASE c = "A" -> "a"
    [] c = "B" -> "b"
    [] OTHER -> c

\* String.prototype.toLowerCase
ToLowerCase(s) == [i \in 1..Len(s) |-> LowerChar(s[i])]

\* String.prototype.includes
Includes(text, part) ==
  \E i \in 0..(Len(text) - Len(part)) : SubSeq(text, i + 1, i + Len(part)) = part

RECURSIVE Join(_, _)
\* Array.prototype.join
Join(strs, sep) ==
  IF strs = <<>> THEN <<>>
  ELSE IF Len(strs) = 1 THEN strs[1]
  ELSE strs[1] \o sep \o Join(Tail(strs), sep)

(* ------------------------------ the data ------------------------------- *)

\* data.searchResults: the document the fetch of the data file returns
Data ==
  << [id |-> 1, title |-> <<"A", "a">>, description |-> <<"a">>, category |-> <<"b">>,
      tags |-> << <<"a">> >>, url |-> <<"a", "a">>, author |-> <<"b">>, date |-> 2],
     [id |-> 2, title |-> <<"b">>, description |-> <<"a">>, category |-> <<"a">>,
      tags |-> <<>>, url |-> <<"a", " ">>, author |-> <<"B">>, date |-> 3],
     [id |-> 3, title |-> <<"b">>, description |-> <<"b">>, category |-> <<"b">>,
      tags |-> << <<"b">> >>, url |-> <<" ", " ">>, author |-> <<"b">>, date |-> 1] >>

(* --------------------------- SearchAPI, pure --------------------------- *)

\* the url is searched too
SearchText_WithUrl(result) ==
  ToLowerCase(result.title \o <<" ">> \o result.description \o <<" ">> \o result.category
              \o <<" ">> \o Join(result.tags, <<" ">>) \o <<" ">> \o result.author
              \o <<" ">> \o result.url)

\* the text SearchAPI.filterResults searches
SearchText(result) ==
  ToLowerCase(result.title \o <<" ">> \o result.description \o <<" ">> \o result.category
              \o <<" ">> \o Join(result.tags, <<" ">>) \o <<" ">> \o result.author)

\* SearchAPI.filterResults
filterResults(results, query) ==
  SelectSeq(results, LAMBDA result : Includes(SearchText(result), ToLowerCase(query)))

\* the comparator of SearchAPI.sortResults: negative when a sorts before b
Compare(a, b, query) ==
  LET queryLower == ToLowerCase(query)
      aTitleMatch == Includes(ToLowerCase(a.title), queryLower)
      bTitleMatch == Includes(ToLowerCase(b.title), queryLower)
      aCategoryMatch == Includes(ToLowerCase(a.category), queryLower)
      bCategoryMatch == Includes(ToLowerCase(b.category), queryLower)
  IN  IF aTitleMatch /\ ~bTitleMatch THEN -1
      ELSE IF ~aTitleMatch /\ bTitleMatch THEN 1
      ELSE IF aCategoryMatch /\ ~bCategoryMatch THEN -1
      ELSE IF ~aCategoryMatch /\ bCategoryMatch THEN 1
      ELSE b.date - a.date

RECURSIVE Insert(_, _, _)
Insert(sorted, x, query) ==
  IF sorted = <<>> THEN <<x>>
  ELSE IF Compare(x, Head(sorted), query) < 0 THEN <<x>> \o sorted
  ELSE <<Head(sorted)>> \o Insert(Tail(sorted), x, query)

RECURSIVE sortResults(_, _)
\* SearchAPI.sortResults: Array.prototype.sort is stable
sortResults(results, query) ==
  IF results = <<>> THEN <<>>
  ELSE Insert(sortResults(SubSeq(results, 1, Len(results) - 1), query),
              results[Len(results)], query)

\* Array.prototype.slice(from, to)
Slice(s, from, to) ==
  LET hi == IF to < Len(s) THEN to ELSE Len(s)
  IN  IF from >= hi THEN <<>> ELSE SubSeq(s, from + 1, hi)

\* the limit is left to the default of SearchAPI.search
LimitFor_Default(query) == 10

\* the limit useSearch.performAPISearch chooses from the query length
LimitFor(query) ==
  IF Len(query) < 3 THEN 3 ELSE IF Len(query) < 6 THEN 6 ELSE 10

CacheKey(query, limit, offset) == <<query, limit, offset>>

Ids(results) == [i \in 1..Len(results) |-> results[i].id]

\* the ids of the results SearchAPI.search computes from the document
PaginatedResultsOf(allResults, query, limit, offset) ==
  LET sortedResults == sortResults(filterResults(allResults, query), query)
  IN  Ids(Slice(sortedResults, offset, offset + limit))

\* the ids of the results SearchAPI.search computes from the fetched document
PaginatedResults(query, limit, offset) ==
  PaginatedResultsOf(Data, query, limit, offset)


(* ------------------------------- state --------------------------------- *)

VARIABLES
  state,               \* useSearch: the SearchState {results, loading, error, query}
  requestIdRef,        \* useSearch: requestIdRef.current
  abortControllerRef,  \* useSearch: the request whose controller the ref holds, 0 for null
  aborted,             \* the requests whose AbortSignal is aborted
  debounceTimeoutRef,  \* useSearch: the timer the ref holds, {} for null
  debounceTimers,      \* the pending timers set by setQuery
  urlTimeoutId,        \* SearchInput: the timer the URL effect's cleanup clears
  urlTimers,           \* the pending timers set by the URL effect
  inflight,            \* the SearchAPI.search calls awaiting the fetch or its body
  cache,               \* SearchAPI.cache
  url,                 \* the q parameter of window.location
  now,                 \* performance.now()
  mounted,             \* the mount effects have run
  calls,               \* history: number of calls of the hook's API after mount
  fetches,             \* history: number of fetches of the data file
  searches,            \* history: number of SearchAPI.search calls
  lastCall,            \* history: the last call of setQuery, setQueryImmediate, clearResults
  lastSearch,          \* history: the last call of performSearch
  timerSearches,       \* history: performSearch calls made by a timer since lastCall
  queryChangedAt,      \* history: when state.query last changed
  burst,               \* history: setQuery calls in a row, each less than debounceMs after the last
  urlWrites,           \* history: number of history.replaceState calls
  lastResponse,        \* history: the last settled request and requestIdRef.current then
  probe                \* the call of a pure function under test: its inputs and its result

vars ==
  << state, requestIdRef, abortControllerRef, aborted, debounceTimeoutRef,
     debounceTimers, urlTimeoutId, urlTimers, inflight, cache, url, now, mounted,
     calls, fetches, searches, lastCall, lastSearch, timerSearches, queryChangedAt,
     burst, urlWrites, lastResponse, probe >>

hookVars == << state, requestIdRef, abortControllerRef, aborted, inflight, cache >>

history == << calls, fetches, searches, lastCall, lastSearch, timerSearches, burst >>

\* no pure function is under test
NoProbe == [kind |-> "none"]

NoResponse == [id |-> 0, latest |-> 0, outcome |-> "none"]

Response(r, outcome) == [id |-> r.id, latest |-> requestIdRef, outcome |-> outcome]

InitialState == [results |-> <<>>, loading |-> FALSE, error |-> Null, query |-> <<>>]

NoParam == [has |-> FALSE, q |-> <<>>]

Param(q) == [has |-> TRUE, q |-> q]

\* the URLs the page can be opened with
InitialUrls == {NoParam} \cup {Param(q) : q \in UrlQueries}

\* Date.now()
DateNow == TimeOrigin + now

\* the refs, timers, service and history before the mount effects run
InitialRest ==
  /\ requestIdRef = 0
  /\ abortControllerRef = 0
  /\ aborted = {}
  /\ debounceTimeoutRef = {}
  /\ debounceTimers = {}
  /\ urlTimeoutId = {}
  /\ urlTimers = {}
  /\ inflight = {}
  /\ cache = {}
  /\ now = 0
  /\ mounted = FALSE
  /\ calls = 0
  /\ fetches = 0
  /\ searches = 0
  /\ lastCall = [op |-> "none", query |-> <<>>, at |-> 0]
  /\ lastSearch = [origin |-> "none", query |-> <<>>]
  /\ timerSearches = 0
  /\ queryChangedAt = 0
  /\ burst = 0
  /\ urlWrites = 0
  /\ lastResponse = NoResponse

Init ==
  /\ state = InitialState
  /\ url \in InitialUrls
  /\ probe = NoProbe
  /\ InitialRest

(* ----------------------------- SearchAPI.search ------------------------ *)

\* the cached responses SearchAPI.search returns instead of fetching
CacheHits(key) == {c \in cache : c.key = key /\ DateNow - c.took < cacheTimeout}

\* the cached responses for the key that an earlier call made less than
\* cacheTimeout ago
FreshEntries(key) == {c \in cache : c.key = key /\ now - c.madeAt < cacheTimeout}

\* the fetch SearchAPI.search issues
Fetch(id, query, limit) ==
  [id |-> id, query |-> query, limit |-> limit, start |-> now,
   fresh |-> FreshEntries(CacheKey(query, limit, DefaultOffset)) # {}]

\* the data file is fetched a second time for the same call
FetchCount_Twice(n) == n + 2

\* fetch(this.baseUrl, ...) counts as one fetch
FetchCount(n) == n + 1

\* this.cache.set(cacheKey, searchResponse)
CacheSet(r, results) ==
  LET key == CacheKey(r.query, r.limit, DefaultOffset)
  IN  {c \in cache : c.key # key}
        \cup {[key |-> key, results |-> results, took |-> now - r.start, madeAt |-> r.start]}

(* ------------------------------- useSearch ----------------------------- *)

\* the hook's default minQueryLength of 1 is used
TooShort_Default(query) == Len(query) < 1

TooShort(query) == Len(query) < minQueryLength

\* performSearch leaves the previous request running
AbortPrevious_Skipped == aborted

\* abortControllerRef.current.abort() in performSearch
AbortPrevious ==
  IF abortControllerRef # 0 THEN aborted \cup {abortControllerRef} ELSE aborted

\* the continuation stores the results and leaves loading as it is
onSuccess_KeepsLoading(r, results) ==
  IF r.id = requestIdRef
  THEN [state EXCEPT !.results = results, !.error = Null]
  ELSE state

\* the continuation of performSearch after a successful await
onSuccess(r, results) ==
  IF r.id = requestIdRef
  THEN [state EXCEPT !.results = results, !.loading = FALSE, !.error = Null]
  ELSE state

\* the catch block does not test signal.aborted
onFailure_IgnoresAbort(r, message) ==
  IF r.id = requestIdRef
  THEN [state EXCEPT !.loading = FALSE, !.error = message]
  ELSE state

\* the catch block reports every failure
onFailure_Unguarded(r, message) ==
  [state EXCEPT !.loading = FALSE, !.error = message]

\* the catch block of performSearch
onFailure(r, message) ==
  IF r.id = requestIdRef /\ r.id \notin aborted
  THEN [state EXCEPT !.loading = FALSE, !.error = message]
  ELSE state

\* performSearch(query), called with the state prev; the awaited search is
\* answered at once from the cache or left in flight
performSearch(query, prev, origin) ==
  /\ lastSearch' = [origin |-> origin, query |-> query]
  /\ IF TooShort(query)
     THEN /\ state' = [prev EXCEPT !.results = <<>>, !.loading = FALSE,
                                   !.error = Null, !.query = query]
          /\ UNCHANGED << requestIdRef, abortControllerRef, aborted, inflight,
                          cache, fetches, searches >>
     ELSE LET currentRequestId == requestIdRef + 1
              limit == LimitFor(query)
              hits == CacheHits(CacheKey(query, limit, DefaultOffset))
              started == [prev EXCEPT !.loading = TRUE, !.error = Null, !.query = query]
          IN  /\ aborted' = AbortPrevious
              /\ abortControllerRef' = currentRequestId
              /\ requestIdRef' = currentRequestId
              /\ searches' = searches + 1
              /\ UNCHANGED cache
              /\ IF hits # {}
                 THEN /\ state' = [started EXCEPT
                                     !.results = (CHOOSE c \in hits : TRUE).results,
                                     !.loading = FALSE, !.error = Null]
                      /\ UNCHANGED << inflight, fetches >>
                 ELSE /\ state' = started
                      /\ inflight' = inflight \cup {Fetch(currentRequestId, query, limit)}
                      /\ fetches' = FetchCount(fetches)

(* ------------------------- SearchInput: URL effect --------------------- *)

UrlTimer(value) == [deadline |-> now + UrlSyncDelayMs, value |-> value]

\* the effect returns no cleanup
UrlTimersAfter_NoCleanup(value) == urlTimers \cup {UrlTimer(value)}

\* the effect's cleanup, then the effect, for the new value
UrlTimersAfter(value) == (urlTimers \ urlTimeoutId) \cup {UrlTimer(value)}

\* the effect runs in the render that follows a change of the value prop
UrlEffect ==
  IF state'.query # state.query
  THEN /\ urlTimers' = UrlTimersAfter(state'.query)
       /\ urlTimeoutId' = {UrlTimer(state'.query)}
       /\ queryChangedAt' = now
  ELSE UNCHANGED << urlTimers, urlTimeoutId, queryChangedAt >>

\* the q parameter the timer's callback writes
UrlFor(value) == IF Trim(value) # <<>> THEN Param(Trim(value)) ELSE NoParam

(* ------------------------------- actions ------------------------------- *)

DebounceTimer(query) == [deadline |-> now + debounceMs, query |-> query]

\* setQuery leaves the pending timer running
SetQueryTimers_NoClear(query) == debounceTimers \cup {DebounceTimer(query)}

\* clearTimeout and setTimeout in setQuery
SetQueryTimers(query) == (debounceTimers \ debounceTimeoutRef) \cup {DebounceTimer(query)}

\* clearTimeout in setQueryImmediate
ImmediateTimers == debounceTimers \ debounceTimeoutRef

\* clearTimeout in clearResults
ClearResultsTimers == debounceTimers \ debounceTimeoutRef

\* clearResults leaves the request running
ClearResultsAborted_Skipped == aborted

\* abortControllerRef.current.abort() in clearResults
ClearResultsAborted ==
  IF abortControllerRef # 0 THEN aborted \cup {abortControllerRef} ELSE aborted

\* the mount effect tests the parameter without trimming it
SearchOnMount_Untrimmed == url.has /\ url.q # <<>>

\* App's mount effect searches for the URL's query
SearchOnMount == url.has /\ Trim(url.q) # <<>>

\* the first render: SearchInput's effect sets the URL timer for the value '',
\* then App's effect calls setQueryImmediate and the next render replaces it
Mount ==
  /\ ~mounted
  /\ mounted' = TRUE
  /\ IF SearchOnMount
     THEN /\ performSearch(Trim(url.q), [state EXCEPT !.query = Trim(url.q)], "immediate")
          /\ lastCall' = [op |-> "setQueryImmediate", query |-> Trim(url.q), at |-> now]
     ELSE UNCHANGED << hookVars, fetches, searches, lastCall, lastSearch >>
  /\ urlTimers' = {UrlTimer(state'.query)}
  /\ urlTimeoutId' = {UrlTimer(state'.query)}
  /\ queryChangedAt' = now
  /\ UNCHANGED << probe, debounceTimeoutRef, debounceTimers, url, now, calls, timerSearches,
                  burst, urlWrites, lastResponse >>

\* useSearch.setQuery
setQuery(query) ==
  /\ mounted /\ calls < MaxCalls
  /\ calls' = calls + 1
  /\ state' = [state EXCEPT !.query = query]
  /\ debounceTimers' = SetQueryTimers(query)
  /\ debounceTimeoutRef' = {DebounceTimer(query)}
  /\ lastCall' = [op |-> "setQuery", query |-> query, at |-> now]
  /\ timerSearches' = 0
  /\ burst' = IF lastCall.op = "setQuery" /\ now - lastCall.at < debounceMs
               THEN burst + 1 ELSE 1
  /\ UrlEffect
  /\ UNCHANGED << probe, requestIdRef, abortControllerRef, aborted, inflight, cache, url, now,
                  mounted, fetches, searches, lastSearch, urlWrites, lastResponse >>

\* useSearch.setQueryImmediate
setQueryImmediate(query) ==
  /\ mounted /\ calls < MaxCalls
  /\ calls' = calls + 1
  /\ debounceTimers' = ImmediateTimers
  /\ performSearch(query, [state EXCEPT !.query = query], "immediate")
  /\ lastCall' = [op |-> "setQueryImmediate", query |-> query, at |-> now]
  /\ timerSearches' = 0
  /\ burst' = 0
  /\ UrlEffect
  /\ UNCHANGED << probe, debounceTimeoutRef, url, now, mounted, urlWrites, lastResponse >>

\* useSearch.clearResults
clearResults ==
  /\ mounted /\ calls < MaxCalls
  /\ calls' = calls + 1
  /\ aborted' = ClearResultsAborted
  /\ debounceTimers' = ClearResultsTimers
  /\ state' = InitialState
  /\ lastCall' = [op |-> "clearResults", query |-> <<>>, at |-> now]
  /\ timerSearches' = 0
  /\ burst' = 0
  /\ UrlEffect
  /\ UNCHANGED << probe, requestIdRef, abortControllerRef, debounceTimeoutRef, inflight, cache,
                  url, now, mounted, fetches, searches, lastSearch, urlWrites,
                  lastResponse >>

\* the callback of the timer set by setQuery
DebounceFire ==
  \E t \in debounceTimers :
    /\ t.deadline <= now
    /\ debounceTimers' = debounceTimers \ {t}
    /\ performSearch(t.query, state, "timer")
    /\ timerSearches' = timerSearches + 1
    /\ UrlEffect
    /\ UNCHANGED << probe, debounceTimeoutRef, url, now, mounted, calls, lastCall, burst,
                    urlWrites, lastResponse >>

\* the callback of the timer set by the URL effect
UrlTimerFire ==
  \E t \in urlTimers :
    /\ t.deadline <= now
    /\ urlTimers' = urlTimers \ {t}
    /\ url' = UrlFor(t.value)
    /\ urlWrites' = urlWrites + 1
    /\ UNCHANGED << probe, hookVars, debounceTimeoutRef, debounceTimers, urlTimeoutId, now,
                    mounted, history, queryChangedAt, lastResponse >>

responseUnchanged ==
  << probe, requestIdRef, abortControllerRef, aborted, debounceTimeoutRef, debounceTimers,
     urlTimeoutId, urlTimers, url, now, mounted, history, queryChangedAt, urlWrites >>

\* the fetch rejects, or resolves with a response that is not ok: SearchAPI.search
\* rethrows and performSearch catches
FetchFail ==
  \E r \in inflight, e \in FetchErrors :
    /\ r.id \notin aborted
    /\ inflight' = inflight \ {r}
    /\ state' = onFailure(r, e)
    /\ lastResponse' = Response(r, "failed")
    /\ UNCHANGED cache
    /\ UNCHANGED responseUnchanged

\* the fetch, or the read of the body, of an aborted request rejects:
\* SearchAPI.search throws 'Request cancelled' and performSearch catches
AbortReject ==
  \E r \in inflight :
    /\ r.id \in aborted
    /\ inflight' = inflight \ {r}
    /\ state' = onFailure(r, RequestCancelled)
    /\ lastResponse' = Response(r, "cancelled")
    /\ UNCHANGED cache
    /\ UNCHANGED responseUnchanged

\* the queries performSearch can be called with
SearchQueries == Queries \cup {Trim(q) : q \in UrlQueries}

\* the results of SearchAPI.search for every request the hook can issue,
\* computed once
ResultsTable ==
  [k \in {<<q, LimitFor(q)>> : q \in SearchQueries}
     |-> PaginatedResults(k[1], k[2], DefaultOffset)]

\* the results SearchAPI.search computes for the request
ResultsOf(r) == ResultsTable[<<r.query, r.limit>>]

\* the fetch resolves with an ok response and response.json() resolves:
\* SearchAPI.search filters, sorts, slices, caches and returns; performSearch
\* continues
FetchResolve ==
  \E r \in inflight :
    /\ r.id \notin aborted
    /\ inflight' = inflight \ {r}
    /\ cache' = CacheSet(r, ResultsOf(r))
    /\ state' = onSuccess(r, ResultsOf(r))
    /\ lastResponse' = Response(r, "ok")
    /\ UNCHANGED responseUnchanged

\* the granularity of time
TickMs == 400

Deadlines == {t.deadline : t \in debounceTimers \cup urlTimers}

Earliest(S) == CHOOSE x \in S : \A y \in S : x <= y

\* time passes, up to the next timer's deadline: a due timer's callback runs
\* before time passes further
Tick ==
  /\ mounted
  /\ \A d \in Deadlines : d > now
  /\ now' = Earliest({now + TickMs} \cup Deadlines)
  /\ now' <= MaxTime
  /\ UNCHANGED << probe, hookVars, debounceTimeoutRef, debounceTimers, urlTimeoutId, urlTimers,
                  url, mounted, history, queryChangedAt, urlWrites, lastResponse >>

Next ==
  \/ Mount
  \/ \E q \in Queries : setQuery(q)
  \/ \E q \in Queries : setQueryImmediate(q)
  \/ clearResults
  \/ DebounceFire
  \/ UrlTimerFire
  \/ FetchResolve
  \/ FetchFail
  \/ AbortReject
  \/ Tick

Spec == Init /\ [][Next]_vars

\* a request in flight settles
Settle == FetchResolve \/ FetchFail \/ AbortReject

\* every fetch settles in the end
LiveSpec == Spec /\ WF_vars(Settle)

(* ----------------------------- SearchResults --------------------------- *)

\* if (error): null and the empty string are falsy
Truthy(str) == str # Null /\ str # ""

\* the loading check comes before the error check
View_LoadingFirst(props) ==
  IF props.loading THEN "loading"
  ELSE IF Truthy(props.error) THEN "error"
  ELSE IF Trim(props.query) = <<>> THEN "start"
  ELSE IF Len(props.results) = 0 THEN "empty"
  ELSE "list"

\* SearchResults: the view the component returns for its props
View(props) ==
  IF Truthy(props.error) THEN "error"
  ELSE IF props.loading THEN "loading"
  ELSE IF Trim(props.query) = <<>> THEN "start"
  ELSE IF Len(props.results) = 0 THEN "empty"
  ELSE "list"

\* everything but the state and the probe
appVars ==
  << requestIdRef, abortControllerRef, aborted, debounceTimeoutRef, debounceTimers,
     urlTimeoutId, urlTimers, inflight, cache, url, now, mounted, calls, fetches,
     searches, lastCall, lastSearch, timerSearches, queryChangedAt, burst, urlWrites,
     lastResponse >>

\* the props App can pass: every combination of the values the fields of the
\* hook's state take
ViewProps ==
  [results : {<<>>, <<1>>, <<2, 1>>}, loading : BOOLEAN,
   error : {Null} \cup FetchErrors, query : UrlQueries]

ViewInit ==
  /\ state \in ViewProps
  /\ url = NoParam
  /\ probe = [kind |-> "props"]
  /\ InitialRest

\* SearchResults renders the props
Render ==
  /\ probe.kind = "props"
  /\ probe' = [kind |-> "view", view |-> View(state)]
  /\ UNCHANGED << state, appVars >>

ViewNext == Render

(* ----------------------- SearchAPI.search, on its own ------------------ *)

B == <<"b">>

\* entries that hold a run of six a's in the title, in the author, in the
\* url only, across the title and the description, and across two tags
Templates ==
  << [title |-> <<"A", "a", "A", "a", "a", "A">>, description |-> B, category |-> B,
      tags |-> <<B>>, url |-> B, author |-> B],
     [title |-> B, description |-> B, category |-> B,
      tags |-> <<>>, url |-> B, author |-> <<"a", "a", "A", "a", "a", "a">>],
     [title |-> B, description |-> B, category |-> B,
      tags |-> <<B>>, url |-> <<"a", "a", "a", "a", "a", "a">>, author |-> B],
     [title |-> <<"b", "a">>, description |-> <<"a", "b">>, category |-> <<"A">>,
      tags |-> <<B>>, url |-> B, author |-> B],
     [title |-> B, description |-> B, category |-> B,
      tags |-> << <<"a">>, <<"a">> >>, url |-> B, author |-> B] >>

Entry(t, i) ==
  [id |-> i, title |-> t.title, description |-> t.description, category |-> t.category,
   tags |-> t.tags, url |-> t.url, author |-> t.author, date |-> i]

\* n entries made from one template, with ids and dates 1..n
Rep(t, n) == [i \in 1..n |-> Entry(t, i)]

\* one entry from each template
MixedDoc == [i \in 1..Len(Templates) |-> Entry(Templates[i], i)]

\* the documents data.searchResults is drawn from
ProbeDocs ==
  {MixedDoc} \cup {Rep(Templates[k], n) : k \in 1..Len(Templates), n \in 0..MaxDocLen}

As(n) == [i \in 1..n |-> "a"]

\* the queries: of every length from 0 to 7, in upper case, and with a space
ProbeQueries ==
  {As(n) : n \in 0..7} \cup {<<"A", "A">>, <<"a", " ", "a">>, <<"a", " ", "b">>}

SearchInit ==
  /\ state = InitialState
  /\ url = NoParam
  /\ probe \in {[kind |-> "search", query |-> q, doc |-> d] :
                  q \in ProbeQueries, d \in ProbeDocs}
  /\ InitialRest

\* performAPISearch chooses the limit and SearchAPI.search filters, sorts and
\* slices the document its fetch returned
SearchProbe ==
  /\ probe.kind = "search"
  /\ probe' =
       [kind |-> "response", query |-> probe.query, doc |-> probe.doc,
        matched |-> Ids(filterResults(probe.doc, probe.query)),
        total |-> Len(filterResults(probe.doc, probe.query)),
        results |-> PaginatedResultsOf(probe.doc, probe.query, LimitFor(probe.query),
                                       DefaultOffset)]
  /\ UNCHANGED << state, appVars >>

SearchNext == SearchProbe

SearchSpec == SearchInit /\ [][SearchNext]_vars

ViewSpec == ViewInit /\ [][ViewNext]_vars


(* ------------------------------- claims -------------------------------- *)

Live == {r \in inflight : r.id \notin aborted}

Settled(r) == r \in inflight /\ r \notin inflight'

\* a step in which performSearch is called
SearchStep ==
  \/ timerSearches' = timerSearches + 1
  \/ lastCall'.op = "setQueryImmediate" /\ (calls' # calls \/ mounted' # mounted)

ShortSearchLast ==
  lastSearch.origin # "none" /\ Len(lastSearch.query) < minQueryLength

\* C1: last request wins.  When the response of a request arrives (success or
\* failure) and the request is not the most recently issued one, results,
\* loading and error keep their values.
C1_LastRequestWins ==
  [][\A r \in inflight :
       Settled(r) /\ r.id # requestIdRef
         => /\ state'.results = state.results
            /\ state'.loading = state.loading
            /\ state'.error = state.error]_vars

\* a superseded request's response arrived while a later request was loading
C1_Witness ==
  /\ lastResponse.id # 0
  /\ lastResponse.id < lastResponse.latest
  /\ state.loading

\* C2: cancel on supersede.  Every request issued before the latest one has
\* an aborted signal, so at most one request in flight has a signal that is
\* not aborted.
C2_CancelOnSupersede ==
  /\ \A id \in 1..(requestIdRef - 1) : id \in aborted
  /\ Cardinality(Live) <= 1

\* two requests are in flight, the older one aborted
C2_Witness ==
  /\ Cardinality(inflight) >= 2
  /\ Cardinality(Live) = 1

\* C3: debounce.  At most one debounce timer is pending; after a call of the
\* hook's API a timer starts at most one search, and only for the query of a
\* setQuery that was the last call, debounceMs or more after it; once more
\* than debounceMs have passed since a setQuery that was the last call, that
\* one search has been started.
C3_Debounce ==
  /\ Cardinality(debounceTimers) <= 1
  /\ timerSearches <= 1
  /\ timerSearches = 1 =>
       /\ lastCall.op = "setQuery"
       /\ lastSearch = [origin |-> "timer", query |-> lastCall.query]
       /\ now >= lastCall.at + debounceMs
  /\ lastCall.op = "setQuery" /\ now > lastCall.at + debounceMs => timerSearches = 1

\* a burst of two setQuery calls, the second after time has passed, produced
\* its one search
C3_Witness ==
  /\ burst >= 2
  /\ timerSearches = 1
  /\ searches = 1
  /\ lastCall.at > 0

\* C4: a SearchAPI.search call whose key has a cached response of a call made
\* less than 5 minutes before issues no fetch.
C4_CacheServes == \A r \in inflight : ~r.fresh

\* C5, as stated: at most one fetch of the data file is ever issued.
C5_FetchedOnce == fetches <= 1

\* C5, amended: every SearchAPI.search call issues at most one fetch of the
\* data file, so the fetches never outnumber the search calls.
C5_OneFetchPerSearch == fetches <= searches

\* a second search call, for a query searched before, fetched again
C5_Witness ==
  /\ searches >= 2
  /\ fetches >= 2
  /\ cache # {}

\* C6: minimum query length.  A performSearch call with a query shorter than
\* minQueryLength issues no request and leaves results = [], loading = false,
\* error = null and query = the given query.
C6_MinQueryLength ==
  [][SearchStep /\ Len(lastSearch'.query) < minQueryLength
       => /\ inflight' = inflight
          /\ requestIdRef' = requestIdRef
          /\ fetches' = fetches
          /\ searches' = searches
          /\ state' = [results |-> <<>>, loading |-> FALSE, error |-> Null,
                       query |-> lastSearch'.query]]_vars

\* a one-character query was processed while an earlier request was in flight
C6_Witness ==
  /\ lastSearch.origin # "none"
  /\ Len(lastSearch.query) = 1
  /\ inflight # {}
  /\ ~state.loading

\* C7: after performSearch has processed a query shorter than minQueryLength,
\* and until a later search is started, results are empty and loading is false.
C7_ShortQueryStaysEmpty ==
  ShortSearchLast => state.results = <<>> /\ ~state.loading

\* C8: clear.  While clearResults is the last call of the hook's API the state
\* is the cleared one, no debounce timer is pending and every request in
\* flight has an aborted signal.
C8_Clear ==
  lastCall.op = "clearResults" =>
    /\ state = [results |-> <<>>, loading |-> FALSE, error |-> Null, query |-> <<>>]
    /\ debounceTimers = {}
    /\ Live = {}

\* the rejection of the request that clearResults aborted has arrived
C8_Witness ==
  /\ lastCall.op = "clearResults"
  /\ lastResponse.outcome = "cancelled"
  /\ lastResponse.id = lastResponse.latest
  /\ cache # {}

UrlWritten == url' # url \/ urlWrites' # urlWrites

\* C9: the URL mirrors the query.  Once the query has been unchanged for more
\* than 1000 ms the q parameter is the trimmed query, absent when that is
\* empty; and the URL is only ever written with the trimmed value of the
\* current query, 1000 ms or more after the query last changed.
C9_UrlMirrorsQuery ==
  /\ [](mounted /\ now > queryChangedAt + UrlSyncDelayMs
          => url = (IF Trim(state.query) = <<>> THEN [has |-> FALSE, q |-> <<>>]
                    ELSE [has |-> TRUE, q |-> Trim(state.query)]))
  /\ [][UrlWritten
          => /\ url' = (IF Trim(state.query) = <<>> THEN [has |-> FALSE, q |-> <<>>]
                        ELSE [has |-> TRUE, q |-> Trim(state.query)])
             /\ now >= queryChangedAt + UrlSyncDelayMs]_vars

\* the query changed twice within 1000 ms and the URL was then written once,
\* with the trimmed second value
C9_Witness ==
  /\ calls = 2
  /\ lastCall.op = "setQuery"
  /\ burst = 2
  /\ queryChangedAt > 0
  /\ state.query = <<"a", " ">>
  /\ urlWrites = 1
  /\ url = [has |-> TRUE, q |-> <<"a">>]

\* C10: direct URL access.  The mount step calls performSearch at once for the
\* trimmed q parameter when that is not empty, and state.query becomes it;
\* otherwise the mount step calls no performSearch and issues no request.
C10_DirectUrlAccess ==
  [][~mounted /\ mounted'
       => IF url.has /\ Trim(url.q) # <<>>
          THEN /\ state'.query = Trim(url.q)
               /\ lastSearch' = [origin |-> "immediate", query |-> Trim(url.q)]
               /\ debounceTimers' = {}
               /\ Len(Trim(url.q)) >= minQueryLength
                    => /\ state'.loading
                       /\ \E r \in inflight' : r.query = Trim(url.q) /\ r.start = now
          ELSE /\ lastSearch'.origin = "none"
               /\ state' = state
               /\ inflight' = {}
               /\ debounceTimers' = {}]_vars

\* the page was opened with ?q=aa and the search is in flight before any call
C10_Witness ==
  /\ mounted
  /\ calls = 0
  /\ now = 0
  /\ state.query = <<"a", "a">>
  /\ state.loading
  /\ \E r \in inflight : r.query = <<"a", "a">> /\ r.start = 0

\* C11: optimistic UI.  While a search is loading and the state holds the
\* results of the previous completed search, the results view shows the
\* result list.
C11_ResultsVisibleWhileLoading ==
  state.loading /\ state.results # <<>> => View(state) = "list"

\* C12: loading ends.  Issuing a request sets loading to true, and, every
\* fetch settling in the end, whenever loading is true it is false later.
C12_LoadingEnds ==
  /\ [][(inflight' \ inflight) # {} => state'.loading]_vars
  /\ (state.loading ~> ~state.loading)

\* the second request issued has succeeded and ended the loading
C12_Witness ==
  /\ requestIdRef = 2
  /\ lastResponse = [id |-> 2, latest |-> 2, outcome |-> "ok"]
  /\ inflight = {}
  /\ ~state.loading

\* C13: error handling.  When the latest request fails and its signal is not
\* aborted, error becomes the failure message and loading false while results
\* and query keep their values; a request whose signal is aborted never
\* changes error.
C13_ErrorHandling ==
  [][\A r \in inflight :
       Settled(r) =>
         /\ (lastResponse'.outcome = "failed" /\ r.id = requestIdRef /\ r.id \notin aborted)
              => /\ state'.error \in FetchErrors
                 /\ ~state'.loading
                 /\ state'.results = state.results
                 /\ state'.query = state.query
         /\ r.id \in aborted => state'.error = state.error]_vars

\* the latest request failed after an earlier one had filled results
C13_Witness ==
  /\ lastResponse.outcome = "failed"
  /\ lastResponse.id = lastResponse.latest
  /\ state.error \in FetchErrors
  /\ state.results # <<>>
  /\ ~state.loading

SetOf(seq) == {seq[i] : i \in 1..Len(seq)}

\* C14: result limiting.  A search returns at most 3 results for a query
\* shorter than 3, at most 6 for a query of length 3 to 5, at most 10 for a
\* longer one; never more than 10.
C14_ResultLimit ==
  probe.kind = "response" =>
    /\ Len(probe.query) <= 2 => Len(probe.results) <= 3
    /\ Len(probe.query) \in 3..5 => Len(probe.results) <= 6
    /\ Len(probe.results) <= 10

\* eleven entries matched a query of length 6 and ten were returned
C14_Witness ==
  /\ probe.kind = "response"
  /\ Len(probe.query) = 6
  /\ probe.total = 11
  /\ Len(probe.results) = 10

\* C15: filtering.  The entries matched are exactly those for which the
\* lower-cased query is a substring of the lower-cased title, description,
\* category, tags joined by spaces, and author, joined by single spaces.
C15_Filtering ==
  probe.kind = "response" =>
    /\ \A i \in 1..Len(probe.doc) :
         probe.doc[i].id \in SetOf(probe.matched)
           <=> LET e == probe.doc[i]
                   fields == <<e.title, e.description, e.category,
                               Join(e.tags, <<" ">>), e.author>>
               IN  Includes(ToLowerCase(Join(fields, <<" ">>)), ToLowerCase(probe.query))
    /\ probe.total = Cardinality(SetOf(probe.matched))

\* of one entry per template, the upper-case query AA matched the title and
\* the author but not the url
C15_Witness ==
  /\ probe.kind = "response"
  /\ probe.doc = MixedDoc
  /\ probe.query = <<"A", "A">>
  /\ probe.matched = <<1, 2>>

=============================================================================
